---- MODULE Spec2Model ----
(***************************************************************************)
(* The dashboard controller of app/dashboard/views/index.py: the index()   *)
(* request handler over the Alias, Contact, EmailLog, DeletedAlias,        *)
(* Mailbox and User tables, and the two query helpers                      *)
(* get_alias_infos_with_pagination and get_alias_info.                     *)
(*                                                                         *)
(* Strings that are pattern-matched (alias emails, notes, the query) are   *)
(* sequences of one-character strings.  An optional string (Alias.note) is *)
(* <<>> for None and <<s>> for the string s.  An optional row reference    *)
(* (mailbox_id, latest_email_log, latest_contact) is 0 for None: ids are   *)
(* autoincrement keys and start at 1.                                      *)
(***************************************************************************)
EXTENDS Integers, Sequences, FiniteSets, TLC

\* ------------------------------------------------------------------------
\* Bounds of the model
\* ------------------------------------------------------------------------

\* Alias rows ever inserted (Alias.id is an autoincrement key).
MaxAliasId == 2

\* Contact rows ever inserted.
MaxContactId == 2

\* EmailLog rows ever inserted.
MaxEmailLogId == 2

\* Last value of the clock that created_at is read from.
MaxTime == 2

\* ------------------------------------------------------------------------
\* Program constants and fixed tables
\* ------------------------------------------------------------------------

\* app.config.PAGE_LIMIT, scaled down.
PAGE_LIMIT == 2

\* The plan's alias quota behind User.can_create_new_alias(), scaled down.
MAX_NB_EMAIL_FREE_PLAN == 2

Users == {1, 2}

\* The addresses an alias can have.
Emails == { <<"a", "x">>, <<"b", "x">> }

None == <<>>

Some(s) == <<s>>

\* Mailbox rows: a real destination address owned by a user.
Mailbox ==
    [id \in 1..3 |->
        CASE id = 1 -> [email |-> "m1", user_id |-> 1]
          [] id = 2 -> [email |-> "m2", user_id |-> 2]
          [] id = 3 -> [email |-> "m3", user_id |-> 1]]

\* current_user.default_mailbox_id
default_mailbox_id(u) == u

\* request.form.get("mailbox"): "zz" names no mailbox.
MailboxArgs == {"m1", "m2", "m3", "zz"}

\* request.form.get("note")
NoteArgs == { None, Some(<<"B", "_">>) }

\* request.form.get("generator_scheme"): absent, a valid scheme, a number that
\* is no scheme, and text that int() rejects.
SchemeArgs == {"", "2", "7", "x"}

\* request.args.get("query") or ""
Queries == { <<>>, <<"a">>, <<"_">> }

\* request.args.get("page"), already converted by int()
Pages == {0, 1}

VARIABLES
    Alias,          \* Alias table: id -> row
    Contact,        \* Contact table: id -> row
    EmailLog,       \* EmailLog table: id -> row
    DeletedAlias,   \* DeletedAlias table: the tombstone rows, in insertion order
    intro_shown,    \* User.intro_shown, per user
    last_id,        \* the autoincrement counters of Alias, Contact, EmailLog
    now,            \* the clock created_at is read from
    response,       \* what the last request did and returned
    alias_infos     \* the alias_infos of the last rendered page

vars == <<Alias, Contact, EmailLog, DeletedAlias, intro_shown, last_id, now,
          response, alias_infos>>

db == <<Alias, Contact, EmailLog, DeletedAlias, intro_shown, last_id, now>>

\* ------------------------------------------------------------------------
\* ORM helpers
\* ------------------------------------------------------------------------

\* Alias.get(alias_id): the row's id, or 0 (None) when there is no such row.
AliasGet(alias_id) == IF alias_id \in DOMAIN Alias THEN alias_id ELSE 0

\* Mailbox.get_by(email=mailbox_email): the row's id, or 0 (None).
MailboxGetBy(mailbox_email) ==
    IF \E m \in DOMAIN Mailbox : Mailbox[m].email = mailbox_email
    THEN CHOOSE m \in DOMAIN Mailbox : Mailbox[m].email = mailbox_email
    ELSE 0

AliasesOf(u) == { a \in DOMAIN Alias : Alias[a].user_id = u }

\* current_user.can_create_new_alias(): the plan-based quota check.
can_create_new_alias(u) == Cardinality(AliasesOf(u)) < MAX_NB_EMAIL_FREE_PLAN

AliasEmails == { Alias[a].email : a \in DOMAIN Alias }

DeletedEmails == { DeletedAlias[i].email : i \in DOMAIN DeletedAlias }

\* The addresses Alias.create_new_random can generate: not those of an alias,
\* and not those of a tombstone.
FreshEmails == Emails \ (AliasEmails \cup DeletedEmails)

\* A function without the key k.
Without(f, k) == [x \in DOMAIN f \ {k} |-> f[x]]

\* A function with the key k set to v.
With(f, k, v) == [x \in DOMAIN f \cup {k} |-> IF x = k THEN v ELSE f[x]]

\* ------------------------------------------------------------------------
\* Responses
\* ------------------------------------------------------------------------

NoFlash == [category |-> "", about |-> <<>>]

Flash(category, about) == [category |-> category, about |-> about]

\* What a request did and returned: the response (kind, endpoint, flash, the
\* template's show_intro) with the request it answers (form, user, mailbox,
\* page, query), the alias row the handler loaded (alias_id, 0 for None), the
\* level of the last LOG call and the address a test email went to.  The
\* handlers override some of these fields.
BaseResponse(u, form) ==
    [kind |-> "redirect", endpoint |-> "dashboard.index", form |-> form,
     user |-> u, alias_id |-> 0, flash |-> NoFlash, highlight_alias_id |-> 0,
     mailbox |-> "", log |-> "", sent_to |-> <<>>, show_intro |-> FALSE,
     page |-> 0, query |-> <<>>]

\* No request is being answered (a step of the environment).
NoResponse == [BaseResponse(0, "") EXCEPT !.kind = "none", !.endpoint = ""]

\* An exception leaves the handler: the framework answers with an error page.
ErrorResponse(u, form, alias_id) ==
    [BaseResponse(u, form) EXCEPT !.kind = "error", !.endpoint = "",
                                  !.alias_id = alias_id]

\* return redirect(url_for("dashboard.index", query=query))
RedirectIndex(u, form, alias_id, flash) ==
    [BaseResponse(u, form) EXCEPT !.alias_id = alias_id, !.flash = flash]

\* return redirect(url_for("dashboard.index", highlight_alias_id=alias.id, query=query))
RedirectHighlight(u, form, alias_id, flash) ==
    [BaseResponse(u, form) EXCEPT !.alias_id = alias_id, !.flash = flash,
                                  !.highlight_alias_id = alias_id]

Init ==
    /\ Alias = << >>
    /\ Contact = << >>
    /\ EmailLog = << >>
    /\ DeletedAlias = << >>
    /\ intro_shown = [u \in Users |-> FALSE]
    /\ last_id = [alias |-> 0, contact |-> 0, email_log |-> 0]
    /\ now = 0
    /\ response = NoResponse
    /\ alias_infos = << >>

\* ------------------------------------------------------------------------
\* POST handlers of index()
\* ------------------------------------------------------------------------

\* int(request.args.get("page")) or int(request.args.get("highlight_alias_id"))
\* raises ValueError before any form is looked at.
BadArgs(u) ==
    /\ response' = ErrorResponse(u, "", 0)
    /\ alias_infos' = << >>
    /\ UNCHANGED db

\* form-name == "trigger-email"
TriggerEmail(u, alias_id) ==
    LET alias == AliasGet(alias_id) IN
    /\ response' =
         IF alias = 0
         THEN ErrorResponse(u, "trigger-email", alias)
         ELSE [RedirectIndex(u, "trigger-email", alias,
                             Flash("success", Alias[alias].email))
                 EXCEPT !.sent_to = Alias[alias].email]
    /\ alias_infos' = << >>
    /\ UNCHANGED db

\* A quota check that lets every request through.
QuotaRefused_Never(u) == FALSE

\* The else branch of "if current_user.can_create_new_alias()".
QuotaRefused(u) == ~ can_create_new_alias(u)

\* form-name == "create-custom-email"
CreateCustomEmail(u) ==
    /\ response' =
         IF ~ QuotaRefused(u)
         THEN [BaseResponse(u, "create-custom-email")
                 EXCEPT !.endpoint = "dashboard.custom_alias"]
         ELSE RedirectIndex(u, "create-custom-email", 0,
                            Flash("warning", <<"upgrade">>))
    /\ alias_infos' = << >>
    /\ UNCHANGED db

\* int(request.form.get("generator_scheme") or current_user.alias_generator),
\* then the fallback to current_user.alias_generator (1) when the number is no
\* value of AliasGeneratorEnum (word = 1, uuid = 2).  -1 stands for ValueError.
GeneratorScheme(arg) ==
    CASE arg = ""  -> 1
      [] arg = "2" -> 2
      [] arg = "7" -> 1
      [] OTHER     -> -1

\* Alias.create_new_random(user=current_user, scheme=scheme), followed by
\* alias.mailbox_id = current_user.default_mailbox_id
NewRandomAlias(u, email) ==
    [user_id |-> u, email |-> email, note |-> None, enabled |-> TRUE,
     mailbox_id |-> default_mailbox_id(u), created_at |-> now]

\* form-name == "create-random-email"
CreateRandomEmail(u, arg, email) ==
    LET id == last_id.alias + 1 IN
    /\ IF QuotaRefused(u)
       THEN /\ response' = RedirectIndex(u, "create-random-email", 0,
                                         Flash("warning", <<"upgrade">>))
            /\ UNCHANGED db
       ELSE IF GeneratorScheme(arg) = -1
       THEN /\ response' = ErrorResponse(u, "create-random-email", 0)
            /\ UNCHANGED db
       ELSE /\ last_id.alias < MaxAliasId
            /\ email \in FreshEmails
            /\ Alias' = With(Alias, id, NewRandomAlias(u, email))
            /\ last_id' = [last_id EXCEPT !.alias = id]
            /\ response' = [RedirectHighlight(u, "create-random-email", id,
                                              Flash("success", email))
                              EXCEPT !.log = "d"]
            /\ UNCHANGED <<Contact, EmailLog, DeletedAlias, intro_shown, now>>
    /\ alias_infos' = << >>

\* A toggle that only ever disables.
SwitchForwarding_Disable(tbl, alias) ==
    [tbl EXCEPT ![alias].enabled = FALSE]

\* alias.enabled = not alias.enabled
SwitchForwarding(tbl, alias) ==
    [tbl EXCEPT ![alias].enabled = ~ tbl[alias].enabled]

\* form-name == "switch-email-forwarding"
SwitchEmailForwarding(u, alias_id) ==
    LET alias == AliasGet(alias_id) IN
    /\ IF alias = 0
       THEN /\ response' = ErrorResponse(u, "switch-email-forwarding", alias)
            /\ UNCHANGED Alias
       ELSE /\ Alias' = SwitchForwarding(Alias, alias)
            /\ response' =
                 RedirectHighlight(u, "switch-email-forwarding", alias,
                     Flash(IF Alias'[alias].enabled THEN "success" ELSE "warning",
                           Alias[alias].email))
    /\ alias_infos' = << >>
    /\ UNCHANGED <<Contact, EmailLog, DeletedAlias, intro_shown, last_id, now>>

\* DeletedAlias.create(...) raises IntegrityError: DeletedAlias.email is unique.
IntegrityError(tombstones, email) ==
    \E i \in DOMAIN tombstones : tombstones[i].email = email

\* A tombstone insertion that goes through whatever the table holds.
SaveDeletedAlias_Always(tombstones, u, email) ==
    Append(tombstones, [user_id |-> u, email |-> email])

\* try: DeletedAlias.create(user_id=current_user.id, email=email); commit
\* except IntegrityError: rollback
SaveDeletedAlias(tombstones, u, email) ==
    IF IntegrityError(tombstones, email)
    THEN tombstones
    ELSE Append(tombstones, [user_id |-> u, email |-> email])

ContactsOf(alias) == { c \in DOMAIN Contact : Contact[c].alias_id = alias }

EmailLogsOf(alias) ==
    { l \in DOMAIN EmailLog : EmailLog[l].contact_id \in ContactsOf(alias) }

\* A deletion that is lost (never committed).
AliasDelete_Lost(tbl, alias) == tbl

\* Alias.delete(alias.id); db.session.commit()
AliasDelete(tbl, alias) == Without(tbl, alias)

\* form-name == "delete-email".  Alias.delete removes the row, and with it the
\* contacts and email logs that reference it.
DeleteEmail(u, alias_id) ==
    LET alias == AliasGet(alias_id) IN
    /\ IF alias = 0
       THEN /\ response' = ErrorResponse(u, "delete-email", alias)
            /\ UNCHANGED <<Alias, Contact, EmailLog, DeletedAlias>>
       ELSE LET email == Alias[alias].email IN
            /\ Alias' = AliasDelete(Alias, alias)
            /\ Contact' = [c \in DOMAIN Contact \ ContactsOf(alias) |-> Contact[c]]
            /\ EmailLog' = [l \in DOMAIN EmailLog \ EmailLogsOf(alias) |-> EmailLog[l]]
            /\ DeletedAlias' = SaveDeletedAlias(DeletedAlias, u, email)
            /\ response' =
                 [RedirectIndex(u, "delete-email", alias, Flash("success", email))
                    EXCEPT !.log = IF IntegrityError(DeletedAlias, email)
                                   THEN "error" ELSE "d"]
    /\ alias_infos' = << >>
    /\ UNCHANGED <<intro_shown, last_id, now>>

\* form-name == "set-note"
SetNote(u, alias_id, note) ==
    LET alias == AliasGet(alias_id) IN
    /\ IF alias = 0
       THEN /\ response' = ErrorResponse(u, "set-note", alias)
            /\ UNCHANGED Alias
       ELSE /\ Alias' = [Alias EXCEPT ![alias].note = note]
            /\ response' = RedirectHighlight(u, "set-note", alias,
                                             Flash("success", Alias[alias].email))
    /\ alias_infos' = << >>
    /\ UNCHANGED <<Contact, EmailLog, DeletedAlias, intro_shown, last_id, now>>

\* A check that the mailbox exists, and not whose it is.
MailboxRejected_NoOwner(u, mailbox) == mailbox = 0

\* if not mailbox or mailbox.user_id != current_user.id
MailboxRejected(u, mailbox) ==
    mailbox = 0 \/ Mailbox[mailbox].user_id # u

\* form-name == "set-mailbox"
SetMailbox(u, alias_id, mailbox_email) ==
    LET alias   == AliasGet(alias_id)
        mailbox == MailboxGetBy(mailbox_email)
    IN
    /\ IF MailboxRejected(u, mailbox)
       THEN /\ response' = [RedirectIndex(u, "set-mailbox", alias,
                                          Flash("warning", <<"retry">>))
                              EXCEPT !.mailbox = mailbox_email]
            /\ UNCHANGED Alias
       ELSE IF alias = 0
       THEN /\ response' = [ErrorResponse(u, "set-mailbox", alias)
                              EXCEPT !.mailbox = mailbox_email]
            /\ UNCHANGED Alias
       ELSE /\ Alias' = [Alias EXCEPT ![alias].mailbox_id = mailbox]
            /\ response' = [RedirectHighlight(u, "set-mailbox", alias,
                                              Flash("success", Alias[alias].email))
                              EXCEPT !.log = "d", !.mailbox = mailbox_email]
    /\ alias_infos' = << >>
    /\ UNCHANGED <<Contact, EmailLog, DeletedAlias, intro_shown, last_id, now>>

\* A POST whose form-name is none of the above falls through to the redirect.
OtherForm(u) ==
    /\ response' = RedirectIndex(u, "", 0, NoFlash)
    /\ alias_infos' = << >>
    /\ UNCHANGED db

\* ------------------------------------------------------------------------
\* The query helpers
\* ------------------------------------------------------------------------

\* ILIKE compares without regard to case.
Lower(c) ==
    CASE c = "A" -> "a"
      [] c = "B" -> "b"
      [] c = "X" -> "x"
      [] OTHER   -> c

\* s LIKE pat, case-insensitively: % matches any run of characters, _ any one.
RECURSIVE LikeMatch(_, _)
LikeMatch(pat, s) ==
    IF pat = <<>> THEN s = <<>>
    ELSE IF Head(pat) = "%"
    THEN LikeMatch(Tail(pat), s) \/ (s # <<>> /\ LikeMatch(pat, Tail(s)))
    ELSE IF s = <<>> THEN FALSE
    ELSE /\ Head(pat) = "_" \/ Lower(Head(pat)) = Lower(Head(s))
         /\ LikeMatch(Tail(pat), Tail(s))

\* column.ilike(f"%{query}%"); NULL (None) matches nothing.
ilike(column, query) ==
    /\ column # None
    /\ LikeMatch(<<"%">> \o query \o <<"%">>, column[1])

\* or_(Alias.email.ilike(f"%{query}%"), Alias.note.ilike(f"%{query}%")),
\* applied only "if query".
QueryFilter(a, query) ==
    \/ query = <<>>
    \/ ilike(Some(Alias[a].email), query)
    \/ ilike(Alias[a].note, query)

Max(S) == CHOOSE x \in S : \A y \in S : y <= x

Min2(x, y) == IF x <= y THEN x ELSE y

\* The case(...) of latest_activity for one joined row.
LatestCase(alias_created_at, log_created_at) ==
    IF alias_created_at > log_created_at THEN alias_created_at
    ELSE IF alias_created_at < log_created_at THEN log_created_at
    ELSE alias_created_at

\* func.max(case(...)) over the rows of the alias in the outer join: one row
\* per email log, or a single row of NULLs (the else_ branch) without any.
latest_activity(a) ==
    IF EmailLogsOf(a) = {} THEN Alias[a].created_at
    ELSE Max({ LatestCase(Alias[a].created_at, EmailLog[l].created_at) :
               l \in EmailLogsOf(a) })

\* The orders in which a query without ORDER BY can return the rows of S.
Orders(S) ==
    { f \in [1..Cardinality(S) -> S] : \A i, j \in DOMAIN f : i # j => f[i] # f[j] }

\* The part of the order `rows` that lies in S.
RECURSIVE Restrict(_, _)
Restrict(rows, S) ==
    IF rows = <<>> THEN <<>>
    ELSE IF Head(rows) \in S THEN <<Head(rows)>> \o Restrict(Tail(rows), S)
    ELSE Restrict(Tail(rows), S)

\* A loop turn that counts a blocked message as forwarded.
CountRow_NoBlocked(info, email_log) ==
    LET counted ==
          IF EmailLog[email_log].is_reply
          THEN [info EXCEPT !.nb_reply = @ + 1]
          ELSE [info EXCEPT !.nb_forward = @ + 1]
    IN IF EmailLog[email_log].created_at > counted.latest_activity
       THEN [counted EXCEPT !.latest_activity = EmailLog[email_log].created_at,
                            !.latest_email_log = email_log,
                            !.latest_contact = EmailLog[email_log].contact_id]
       ELSE counted

\* One turn of the loop of get_alias_info, for the row (contact, email_log).
CountRow(info, email_log) ==
    LET counted ==
          IF EmailLog[email_log].is_reply
          THEN [info EXCEPT !.nb_reply = @ + 1]
          ELSE IF EmailLog[email_log].blocked
          THEN [info EXCEPT !.nb_blocked = @ + 1]
          ELSE [info EXCEPT !.nb_forward = @ + 1]
    IN IF EmailLog[email_log].created_at > counted.latest_activity
       THEN [counted EXCEPT !.latest_activity = EmailLog[email_log].created_at,
                            !.latest_email_log = email_log,
                            !.latest_contact = EmailLog[email_log].contact_id]
       ELSE counted

RECURSIVE AliasInfoLoop(_, _)
AliasInfoLoop(info, rows) ==
    IF rows = <<>> THEN info
    ELSE AliasInfoLoop(CountRow(info, Head(rows)), Tail(rows))

\* get_alias_info(alias), the joined rows coming in the order `rows` (email
\* log ids; a row's contact is its log's contact).
get_alias_info(alias, rows) ==
    LET start == [alias |-> alias, mailbox |-> Alias[alias].mailbox_id,
                  nb_forward |-> 0, nb_blocked |-> 0, nb_reply |-> 0,
                  latest_activity |-> Alias[alias].created_at,
                  latest_email_log |-> 0, latest_contact |-> 0]
        done  == AliasInfoLoop(start, Restrict(rows, EmailLogsOf(alias)))
    IN [alias |-> done.alias, mailbox |-> done.mailbox,
        nb_forward |-> done.nb_forward, nb_blocked |-> done.nb_blocked,
        nb_reply |-> done.nb_reply, latest_email_log |-> done.latest_email_log,
        latest_contact |-> done.latest_contact]

\* The rows of the query of get_alias_infos_with_pagination before LIMIT and
\* OFFSET: the user's aliases that pass the filter.
QueryRows(u, query) == { a \in AliasesOf(u) : QueryFilter(a, query) }

\* order_by(latest_activity.desc()): any order of the rows that is
\* non-increasing in latest_activity.
OrderByLatestDesc(S) ==
    { ord \in Orders(S) :
        \A i, j \in DOMAIN ord :
            i < j => latest_activity(ord[i]) >= latest_activity(ord[j]) }

\* limit(PAGE_LIMIT).offset(page * PAGE_LIMIT)
LimitOffset(ord, page) ==
    SubSeq(ord, page * PAGE_LIMIT + 1, Min2(Len(ord), (page + 1) * PAGE_LIMIT))

\* get_alias_infos_with_pagination(user, page, query), the database returning
\* the aliases in the order `ord` and the joined rows in the order `rows`.
get_alias_infos_with_pagination(ord, page, rows) ==
    LET shown == LimitOffset(ord, page)
    IN [i \in DOMAIN shown |-> get_alias_info(shown[i], rows)]

\* ------------------------------------------------------------------------
\* The GET branch of index()
\* ------------------------------------------------------------------------

\* A first view that forgets that it happened.
IntroShown_Forgotten(u) == intro_shown

\* current_user.intro_shown = True; db.session.commit(), when it was not set
IntroShown(u) ==
    IF ~ intro_shown[u] THEN [intro_shown EXCEPT ![u] = TRUE] ELSE intro_shown

\* The rendered dashboard page.
GetIndex(u, page, query, ord, rows) ==
    /\ ord \in OrderByLatestDesc(QueryRows(u, query))
    /\ rows \in Orders(DOMAIN EmailLog)
    /\ intro_shown' = IntroShown(u)
    /\ response' = [BaseResponse(u, "") EXCEPT
                      !.kind = "render", !.endpoint = "dashboard/index.html",
                      !.show_intro = ~ intro_shown[u],
                      !.log = IF intro_shown[u] THEN "" ELSE "d",
                      !.page = page, !.query = query]
    /\ alias_infos' = get_alias_infos_with_pagination(ord, page, rows)
    /\ UNCHANGED <<Alias, Contact, EmailLog, DeletedAlias, last_id, now>>

\* ------------------------------------------------------------------------
\* The environment: the clock and the mail handler
\* ------------------------------------------------------------------------

Tick ==
    /\ now < MaxTime
    /\ now' = now + 1
    /\ response' = NoResponse
    /\ alias_infos' = << >>
    /\ UNCHANGED <<Alias, Contact, EmailLog, DeletedAlias, intro_shown, last_id>>

\* "a previously deleted alias is re-created via catch-all or directory feature"
RecreateAlias(u, email) ==
    LET id == last_id.alias + 1 IN
    /\ last_id.alias < MaxAliasId
    /\ email \in DeletedEmails \ AliasEmails
    /\ Alias' = With(Alias, id, NewRandomAlias(u, email))
    /\ last_id' = [last_id EXCEPT !.alias = id]
    /\ response' = NoResponse
    /\ alias_infos' = << >>
    /\ UNCHANGED <<Contact, EmailLog, DeletedAlias, intro_shown, now>>

\* An EmailLog row records one forwarded, blocked or replied message.
EmailLogKinds == {"forward", "blocked", "reply"}

NewEmailLog(contact, kind, at) ==
    [contact_id |-> contact, is_reply |-> (kind = "reply"),
     blocked |-> (kind = "blocked"), created_at |-> at]

\* A message for or from an alias is handled: its contact is looked up or
\* created, and the message is logged.
ReceiveEmail(alias, contact, kind) ==
    /\ alias \in DOMAIN Alias
    /\ last_id.email_log < MaxEmailLogId
    /\ \/ contact \in ContactsOf(alias)
       \/ contact = last_id.contact + 1 /\ contact <= MaxContactId
    /\ Contact' = With(Contact, contact, [alias_id |-> alias])
    /\ EmailLog' = With(EmailLog, last_id.email_log + 1,
                        NewEmailLog(contact, kind, now))
    /\ last_id' = [last_id EXCEPT !.contact = IF contact > @ THEN contact ELSE @,
                                  !.email_log = @ + 1]
    /\ response' = NoResponse
    /\ alias_infos' = << >>
    /\ UNCHANGED <<Alias, DeletedAlias, intro_shown, now>>

\* ------------------------------------------------------------------------
\* The dashboard under requests of its users
\* ------------------------------------------------------------------------

\* request.form.get("alias-id"): the ids of rows that exist, existed or never did.
AliasIds == 1..MaxAliasId

Request(u) ==
    \/ BadArgs(u)
    \/ \E alias_id \in AliasIds : TriggerEmail(u, alias_id)
    \/ CreateCustomEmail(u)
    \/ \E arg \in SchemeArgs, email \in Emails : CreateRandomEmail(u, arg, email)
    \/ \E alias_id \in AliasIds : SwitchEmailForwarding(u, alias_id)
    \/ \E alias_id \in AliasIds : DeleteEmail(u, alias_id)
    \/ \E alias_id \in AliasIds, note \in NoteArgs : SetNote(u, alias_id, note)
    \/ \E alias_id \in AliasIds, mailbox_email \in MailboxArgs :
          SetMailbox(u, alias_id, mailbox_email)
    \/ OtherForm(u)
    \/ \E page \in Pages, query \in Queries :
          \E ord \in OrderByLatestDesc(QueryRows(u, query)),
             rows \in Orders(DOMAIN EmailLog) :
                GetIndex(u, page, query, ord, rows)

Next ==
    \/ \E u \in Users : Request(u)
    \/ \E u \in Users, email \in Emails : RecreateAlias(u, email)

\* The form actions and the page view, on a database that starts empty.
Spec == Init /\ [][Next]_vars

\* ------------------------------------------------------------------------
\* The dashboard page of users whose aliases receive mail
\* ------------------------------------------------------------------------

\* Three aliases of user 1 and one of user 2, created at times 0 and 1.
InitAlias ==
    [id \in 1..4 |->
        CASE id = 1 -> [user_id |-> 1, email |-> <<"a", "x">>, note |-> None,
                        enabled |-> TRUE, mailbox_id |-> 1, created_at |-> 0]
          [] id = 2 -> [user_id |-> 1, email |-> <<"b", "x">>,
                        note |-> Some(<<"A", "_">>),
                        enabled |-> FALSE, mailbox_id |-> 3, created_at |-> 0]
          [] id = 3 -> [user_id |-> 1, email |-> <<"c", "x">>, note |-> Some(<<>>),
                        enabled |-> TRUE, mailbox_id |-> 1, created_at |-> 1]
          [] id = 4 -> [user_id |-> 2, email |-> <<"a", "b">>, note |-> None,
                        enabled |-> TRUE, mailbox_id |-> 2, created_at |-> 1]]

InitView ==
    /\ Alias = InitAlias
    /\ Contact = << >>
    /\ EmailLog = << >>
    /\ DeletedAlias = << >>
    /\ intro_shown = [u \in Users |-> TRUE]
    /\ last_id = [alias |-> 4, contact |-> 0, email_log |-> 0]
    /\ now = 1
    /\ response = NoResponse
    /\ alias_infos = << >>

\* Pages past the last one are asked for too.
ViewPages == {0, 1, 2}

NextView ==
    \/ Tick
    \/ \E alias \in DOMAIN Alias, contact \in 1..MaxContactId, kind \in EmailLogKinds :
          ReceiveEmail(alias, contact, kind)
    \/ \E u \in Users, page \in ViewPages, query \in Queries :
          \E ord \in OrderByLatestDesc(QueryRows(u, query)),
             rows \in Orders(DOMAIN EmailLog) :
                GetIndex(u, page, query, ord, rows)

\* The page view while mail arrives, on a database that holds aliases.
SpecView == InitView /\ [][NextView]_vars

\* ------------------------------------------------------------------------
\* Properties of the form actions
\* ------------------------------------------------------------------------

\* C1: whatever requests were made (an alias deleted, its address re-created
\* and deleted again; delete-email sent twice for the same alias), the
\* tombstone table holds at most one DeletedAlias row per email address.
C1_OneTombstonePerEmail ==
    \A i, j \in DOMAIN DeletedAlias :
        DeletedAlias[i].email = DeletedAlias[j].email => i = j

\* An alias whose address already had a tombstone has just been deleted.
C1_Witness ==
    /\ response.form = "delete-email"
    /\ response.kind = "redirect"
    /\ response.log = "error"
    /\ \E i \in DOMAIN DeletedAlias : DeletedAlias[i].email = response.flash.about

\* C2: a delete-email POST for an existing alias ends in the redirect to the
\* dashboard, the alias no longer exists and a tombstone for its email exists,
\* with or without a uniqueness conflict; on a conflict the tombstones are
\* unchanged and the deletion of the alias is kept.
C2_DeleteStep ==
    response'.form = "delete-email" /\ response'.alias_id \in DOMAIN Alias =>
        LET alias == response'.alias_id
            email == Alias[alias].email
            conflict == \E i \in DOMAIN DeletedAlias : DeletedAlias[i].email = email
        IN /\ response'.kind = "redirect"
           /\ response'.endpoint = "dashboard.index"
           /\ alias \notin DOMAIN Alias'
           /\ \A a \in DOMAIN Alias \ {alias} :
                a \in DOMAIN Alias' /\ Alias'[a] = Alias[a]
           /\ \E i \in DOMAIN DeletedAlias' : DeletedAlias'[i].email = email
           /\ conflict => DeletedAlias' = DeletedAlias /\ response'.log = "error"
           /\ ~ conflict =>
                DeletedAlias' = Append(DeletedAlias,
                                       [user_id |-> response'.user, email |-> email])

C2_DeleteKeptOnConflict == [][C2_DeleteStep]_vars

\* The conflict has happened: the alias is gone, its tombstone is an older one.
C2_Witness ==
    /\ response.form = "delete-email"
    /\ response.kind = "redirect"
    /\ response.log = "error"
    /\ response.alias_id \notin DOMAIN Alias
    /\ response.flash.about \in DeletedEmails

\* The mailbox a set-mailbox request names is one of the user's.
C3_OwnMailbox(u, mailbox_email) ==
    \E m \in DOMAIN Mailbox :
        Mailbox[m].email = mailbox_email /\ Mailbox[m].user_id = u

\* C3: a set-mailbox POST that names no mailbox, or a mailbox of another user,
\* flashes a warning and changes nothing that is stored; alias.mailbox_id is
\* reassigned only to a mailbox that exists and belongs to the current user.
C3_SetMailboxStep ==
    response'.form = "set-mailbox" =>
        LET u == response'.user
            alias == response'.alias_id
        IN /\ ~ C3_OwnMailbox(u, response'.mailbox) =>
                /\ response'.kind = "redirect"
                /\ response'.flash.category = "warning"
                /\ UNCHANGED db
           /\ Alias' # Alias =>
                /\ C3_OwnMailbox(u, response'.mailbox)
                /\ alias \in DOMAIN Alias
                /\ \E m \in DOMAIN Mailbox :
                     /\ Mailbox[m].email = response'.mailbox
                     /\ Mailbox[m].user_id = u
                     /\ Alias' = [Alias EXCEPT ![alias].mailbox_id = m]
           /\ UNCHANGED <<Contact, EmailLog, DeletedAlias, intro_shown, last_id, now>>

C3_ForeignMailboxRejected == [][C3_SetMailboxStep]_vars

\* User 1 has asked for a mailbox of user 2 on an alias that exists, and the
\* alias still has another mailbox.
C3_Witness ==
    /\ response.form = "set-mailbox"
    /\ response.user = 1
    /\ response.mailbox = "m2"
    /\ response.flash.category = "warning"
    /\ response.alias_id \in DOMAIN Alias
    /\ Alias[response.alias_id].mailbox_id # 2

\* C4: a create-random-email or create-custom-email POST made while
\* can_create_new_alias() is false changes nothing that is stored, flashes the
\* upgrade warning and redirects to the dashboard; an alias is created only by
\* create-random-email when the quota check passes, and it gets the user's
\* default mailbox.
C4_CreateStep ==
    response'.form \in {"create-random-email", "create-custom-email"} =>
        LET u == response'.user IN
        /\ ~ can_create_new_alias(u) =>
             /\ UNCHANGED db
             /\ response'.kind = "redirect"
             /\ response'.endpoint = "dashboard.index"
             /\ response'.flash = Flash("warning", <<"upgrade">>)
        /\ ~ UNCHANGED db =>
             /\ can_create_new_alias(u)
             /\ response'.form = "create-random-email"
             /\ \E id \in DOMAIN Alias' \ DOMAIN Alias :
                  /\ DOMAIN Alias' = DOMAIN Alias \cup {id}
                  /\ Alias'[id].user_id = u
                  /\ Alias'[id].mailbox_id = default_mailbox_id(u)
                  /\ \A a \in DOMAIN Alias : Alias'[a] = Alias[a]
             /\ UNCHANGED <<Contact, EmailLog, DeletedAlias, intro_shown, now>>

C4_QuotaRefusalChangesNothing == [][C4_CreateStep]_vars

\* A user at the quota has asked for a random alias and got the warning.
C4_Witness ==
    /\ response.form = "create-random-email"
    /\ response.flash = Flash("warning", <<"upgrade">>)
    /\ ~ can_create_new_alias(response.user)

\* C5: the intro banner is one-shot.  A page view shows it exactly when the
\* user's intro_shown was false, and leaves intro_shown true; no step sets
\* intro_shown back to false, so every later page view has show_intro false.
C5_IntroStep ==
    /\ \A u \in Users : intro_shown[u] => intro_shown'[u]
    /\ response'.kind = "render" =>
         /\ response'.show_intro = ~ intro_shown[response'.user]
         /\ intro_shown'[response'.user]
    /\ response'.kind # "render" => intro_shown' = intro_shown /\ ~ response'.show_intro

C5_IntroShownOnce == [][C5_IntroStep]_vars

\* A page view after the first one: the intro is not shown again.
C5_Witness ==
    /\ response.kind = "render"
    /\ ~ response.show_intro
    /\ intro_shown[response.user]

\* Toggling an alias twice gives back the table.
C6_TwiceIsIdentity ==
    \A a \in DOMAIN Alias :
        /\ SwitchForwarding(Alias, a)[a].enabled # Alias[a].enabled
        /\ SwitchForwarding(SwitchForwarding(Alias, a), a) = Alias

\* A switch-email-forwarding POST flips enabled of its alias and nothing else.
C6_SwitchStep ==
    response'.form = "switch-email-forwarding" /\ response'.kind = "redirect" =>
        LET alias == response'.alias_id IN
        /\ alias \in DOMAIN Alias
        /\ Alias' = [Alias EXCEPT ![alias].enabled = ~ Alias[alias].enabled]
        /\ UNCHANGED <<Contact, EmailLog, DeletedAlias, intro_shown, last_id, now>>

\* C6: one switch-email-forwarding POST flips alias.enabled and changes no
\* other field and no other alias; two in a row give back the original value.
C6_ToggleTwice == [] C6_TwiceIsIdentity /\ [][C6_SwitchStep]_vars

\* An alias is enabled again by a second switch.
C6_Witness ==
    /\ response.form = "switch-email-forwarding"
    /\ response.kind = "redirect"
    /\ response.flash.category = "success"
    /\ response.alias_id \in DOMAIN Alias
    /\ Alias[response.alias_id].enabled

\* C10: a request of user U leaves every alias of another user as it was
\* (enabled, note, mailbox_id, and that it exists), and records no tombstone
\* with user_id U for the address of another user's alias.
C10_ForeignStep ==
    response'.kind # "none" =>
        LET u == response'.user IN
        /\ \A a \in DOMAIN Alias :
             Alias[a].user_id # u => a \in DOMAIN Alias' /\ Alias'[a] = Alias[a]
        /\ \A i \in DOMAIN DeletedAlias' \ DOMAIN DeletedAlias :
             DeletedAlias'[i].user_id = u =>
                \A a \in DOMAIN Alias :
                    Alias[a].email = DeletedAlias'[i].email => Alias[a].user_id = u

C10_OnlyOwnAliases == [][C10_ForeignStep]_vars

\* ------------------------------------------------------------------------
\* Properties of the alias list of a rendered page
\* ------------------------------------------------------------------------

\* s contains q as a substring, letter case aside.
C7_Contains(s, q) ==
    \E i \in 1..(Len(s) - Len(q) + 1) :
        \A k \in 1..Len(q) : Lower(s[i + k - 1]) = Lower(q[k])

\* The aliases of u whose email or note contains the query.
C7_Matching(u, query) ==
    { a \in DOMAIN Alias :
        /\ Alias[a].user_id = u
        /\ \/ query = <<>>
           \/ C7_Contains(Alias[a].email, query)
           \/ Alias[a].note # None /\ C7_Contains(Alias[a].note[1], query) }

\* The latest activity of an alias: the later of its creation and that of its
\* newest email log.
C7_Latest(a) ==
    Max({Alias[a].created_at} \cup { EmailLog[l].created_at : l \in EmailLogsOf(a) })

\* The alias list is the page-th run of PAGE_LIMIT aliases of the set M, in
\* non-increasing order of latest activity.
C7_IsPage(M, page) ==
    LET shown == { alias_infos[i].alias : i \in DOMAIN alias_infos }
        skip  == Min2(Cardinality(M), page * PAGE_LIMIT)
    IN /\ Len(alias_infos) <= PAGE_LIMIT
       /\ Len(alias_infos) = Min2(PAGE_LIMIT, Cardinality(M) - skip)
       /\ Cardinality(shown) = Len(alias_infos)
       /\ shown \subseteq M
       /\ \A i, j \in DOMAIN alias_infos :
            i < j => C7_Latest(alias_infos[i].alias) >= C7_Latest(alias_infos[j].alias)
       /\ \E before \in SUBSET (M \ shown) :
            /\ Cardinality(before) = skip
            /\ \A b \in before, x \in shown : C7_Latest(b) >= C7_Latest(x)
            /\ \A r \in M \ (shown \cup before), x \in shown :
                 C7_Latest(r) <= C7_Latest(x)

\* C7: a page holds at most PAGE_LIMIT entries, all of them aliases of the
\* user whose email or note contains the query (when one is given), after the
\* first page * PAGE_LIMIT of them, in non-increasing order of latest activity.
C7_PageOfMatchingAliases ==
    response.kind = "render" =>
        C7_IsPage(C7_Matching(response.user, response.query), response.page)

\* C7 for the queries without the LIKE wildcards % and _.
C7_PageOfMatchingAliasesPlainQuery ==
    /\ response.kind = "render"
    /\ \A k \in DOMAIN response.query : response.query[k] \notin {"%", "_"}
    => C7_IsPage(C7_Matching(response.user, response.query), response.page)

\* The email logs of alias a with the greatest created_at.
C8_Newest(a) ==
    { l \in EmailLogsOf(a) :
        \A m \in EmailLogsOf(a) : EmailLog[m].created_at <= EmailLog[l].created_at }

\* C8: for an alias with an email log, latest_email_log is the log with the
\* greatest created_at and latest_contact the contact of that log; both are
\* None only when the alias has no email log.
C8_LatestLogReturned ==
    \A i \in DOMAIN alias_infos :
        LET info == alias_infos[i] IN
        /\ EmailLogsOf(info.alias) # {} =>
             /\ info.latest_email_log \in C8_Newest(info.alias)
             /\ info.latest_contact = EmailLog[info.latest_email_log].contact_id
        /\ EmailLogsOf(info.alias) = {} =>
             info.latest_email_log = 0 /\ info.latest_contact = 0

\* C8 for the aliases whose newest log is newer than the alias itself.
C8_LatestLogReturnedWhenNewer ==
    \A i \in DOMAIN alias_infos :
        LET info == alias_infos[i]
            newer == { l \in EmailLogsOf(info.alias) :
                         EmailLog[l].created_at > Alias[info.alias].created_at }
        IN /\ newer # {} =>
                /\ info.latest_email_log \in C8_Newest(info.alias)
                /\ info.latest_contact = EmailLog[info.latest_email_log].contact_id
           /\ newer = {} => info.latest_email_log = 0 /\ info.latest_contact = 0

====
